---- MODULE Spec2Model ----
(***************************************************************************)
(* A model of src/main.py: the maze generator (MazeGenerator.generate),    *)
(* the A* path finder (PathFinder.astar) and the driver (GameState).       *)
(*                                                                         *)
(* A cell is the pair <<x, y>>; the grid maps each cell to 1 (wall) or 0   *)
(* (open), as grid[y][x] does in the source.  Both generate and astar are  *)
(* Python generator functions: the model keeps each one's suspended frame  *)
(* in a record (its locals and the yield it is suspended at), and one      *)
(* advance (one next(...)) runs the frame from that yield to the next one. *)
(* The program only ever calls generate with animate=True (line 174); the  *)
(* model's generator step is one iteration of its while loop, which is one *)
(* advance in that mode.                                                   *)
(***************************************************************************)
EXTENDS Integers, Sequences, FiniteSets, Bags, TLC

VARIABLES
    width,           \* MazeGenerator.width
    height,          \* MazeGenerator.height
    grid,            \* MazeGenerator.grid (GameState.grid is the same object)
    gen_iterator,    \* the frame of the running generate(): [pc, stack, event],
                     \* and the history of the run: the cells it emitted and pushed
    calls,           \* history: how many times generate was called on this maze
    astar_iterator,  \* the frame of the running astar()
    gs_start,        \* GameState.start
    gs_end,          \* GameState.end
    gs_path,         \* GameState.path
    gs_visited,      \* GameState.visited
    gs_frontier,     \* GameState.frontier
    generating,      \* GameState.generating
    solving,         \* GameState.solving
    main_pc          \* where main() is: "construct", "loop"

vars == <<width, height, grid, gen_iterator, calls, astar_iterator, gs_start,
          gs_end, gs_path, gs_visited, gs_frontier, generating, solving, main_pc>>

mazeVars == <<width, height, grid, gen_iterator, calls>>
gameVars == <<gs_start, gs_end, gs_path, gs_visited, gs_frontier, generating,
              solving, main_pc>>

----------------------------------------------------------------------------
(* Bounds of the model *)

\* generate is explored on every width x height grid with 3 <= width, height <= MaxDim
MaxDim == 7
\* generate is called at most MaxCalls times on one MazeGenerator
MaxCalls == 2
\* astar is explored on every grid of at most MaxCells cells (valid start/end)
MaxCells == 10
\* astar with arbitrary (also invalid) start/end: grids of at most MaxCellsAny cells
MaxCellsAny == 5
\* the driver's grid, GRID_WIDTH x GRID_HEIGHT (101 x 101 in the source, line 8),
\* scaled down to two rooms
GRID_WIDTH == 5
GRID_HEIGHT == 3

----------------------------------------------------------------------------
(* Values *)

Wall == 1
Open == 0
CELL_SIZE == 8

\* Python's None; a cell is a pair, so the empty tuple is distinct from every cell
None == <<>>

Cells(w, h) == (0 .. w - 1) \X (0 .. h - 1)

\* [[1 for _ in range(width)] for _ in range(height)]
FreshGrid(w, h) == [c \in Cells(w, h) |-> Wall]

OpenCells(g) == {c \in DOMAIN g : g[c] = Open}

Abs(n) == IF n < 0 THEN -n ELSE n

Min(S) == CHOOSE m \in S : \A o \in S : m <= o

Range(s) == {s[i] : i \in 1 .. Len(s)}

RECURSIVE Reverse(_)
Reverse(s) == IF s = <<>> THEN <<>> ELSE Append(Reverse(Tail(s)), Head(s))

----------------------------------------------------------------------------
(* MazeGenerator.generate *)

\* self.directions, as a set: random.shuffle puts it in some order before every scan
directions == {<<-2, 0>>, <<2, 0>>, <<0, -2>>, <<0, 2>>}

\* every order random.shuffle can leave self.directions in
Shuffles ==
    {p \in [1 .. 4 -> directions] : \A i, j \in 1 .. 4 : i # j => p[i] # p[j]}

\* start = (1, 1)
GenStart == <<1, 1>>

\* nx, ny = x + dx, y + dy
Step(c, d) == <<c[1] + d[1], c[2] + d[2]>>

\* 1 <= nx < self.width-1 and 1 <= ny < self.height-1
InInteriorOnBorder(n, w, h) == 0 <= n[1] /\ n[1] < w /\ 0 <= n[2] /\ n[2] < h
InInterior(n, w, h) == 1 <= n[1] /\ n[1] < w - 1 /\ 1 <= n[2] /\ n[2] < h - 1

\* the cell (x + dx//2, y + dy//2) between c and its neighbour in direction d
ConnectorNone(c, d) == c
Connector(c, d) == <<c[1] + (d[1] \div 2), c[2] + (d[2] \div 2)>>

\* the test of lines 50-51 for direction d from cell c
FitsOpenToo(d, c, g, w, h) == InInterior(Step(c, d), w, h)
Fits(d, c, g, w, h) == InInterior(Step(c, d), w, h) /\ g[Step(c, d)] = Wall

\* the for loop of lines 48-58: the first direction of the shuffled list that
\* fits, or None when the loop ends without a break
FirstFit(perm, c, g, w, h) ==
    LET idx == {i \in 1 .. Len(perm) : Fits(perm[i], c, g, w, h)}
    IN  IF idx = {} THEN None ELSE perm[Min(idx)]

\* stack.pop()
PopTwo(s) == SubSeq(s, 1, Len(s) - 2)
PopKeeps(s) == s
Pop(s) == SubSeq(s, 1, Len(s) - 1)

\* a generator object on which next() was not called yet.  emitted and pushed
\* are history: the cells this run yielded (line 57) and appended to the stack
\* (lines 41, 56), each with the number of times
NewGenerator ==
    [pc |-> "init", stack |-> <<>>, event |-> None,
     emitted |-> EmptyBag, pushed |-> EmptyBag]
NoGenerator == [NewGenerator EXCEPT !.pc = "none"]

\* lines 39-41 run at the first advance only
GridAtLoop == IF gen_iterator.pc = "init" THEN [grid EXCEPT ![GenStart] = Open] ELSE grid
StackAtLoop == IF gen_iterator.pc = "init" THEN <<GenStart>> ELSE gen_iterator.stack
PushedAtLoop ==
    IF gen_iterator.pc = "init" THEN SetToBag({GenStart}) ELSE gen_iterator.pushed

\* one advance that carves: lines 43-57, the yield of (nx, ny)
GenCarve ==
    /\ gen_iterator.pc \in {"init", "loop"}
    /\ StackAtLoop # <<>>
    /\ \E perm \in Shuffles :
         LET c == StackAtLoop[Len(StackAtLoop)]
             d == FirstFit(perm, c, GridAtLoop, width, height)
         IN  /\ d # None
             /\ grid' = [GridAtLoop EXCEPT ![Step(c, d)] = Open,
                                           ![Connector(c, d)] = Open]
             /\ gen_iterator' = [pc |-> "loop",
                                 stack |-> Append(StackAtLoop, Step(c, d)),
                                 event |-> Step(c, d),
                                 emitted |-> gen_iterator.emitted
                                               (+) SetToBag({Step(c, d)}),
                                 pushed |-> PushedAtLoop (+) SetToBag({Step(c, d)})]

\* one advance that backtracks: lines 43-51, 59-62, the yield of None
GenBacktrack ==
    /\ gen_iterator.pc \in {"init", "loop"}
    /\ StackAtLoop # <<>>
    /\ \E perm \in Shuffles :
         LET c == StackAtLoop[Len(StackAtLoop)]
         IN  /\ FirstFit(perm, c, GridAtLoop, width, height) = None
             /\ grid' = GridAtLoop
             /\ gen_iterator' = [pc |-> "loop", stack |-> Pop(StackAtLoop),
                                 event |-> None,
                                 emitted |-> gen_iterator.emitted,
                                 pushed |-> PushedAtLoop]

\* the advance that finds the stack empty: the generator returns (StopIteration)
GenStop ==
    /\ gen_iterator.pc = "loop"
    /\ gen_iterator.stack = <<>>
    /\ grid' = grid
    /\ gen_iterator' = [gen_iterator EXCEPT !.pc = "done", !.event = None]

----------------------------------------------------------------------------
(* PathFinder.astar *)

\* heuristic(a, b): the Manhattan distance
HeuristicTripled(a, b) == 3 * (Abs(a[1] - b[1]) + Abs(a[2] - b[2]))
Heuristic(a, b) == Abs(a[1] - b[1]) + Abs(a[2] - b[2])

\* Python's order on the tuples (priority, (x, y)) the heap holds
EntryLeq(e, f) ==
    \/ e[1] < f[1]
    \/ /\ e[1] = f[1]
       /\ \/ e[2][1] < f[2][1]
          \/ e[2][1] = f[2][1] /\ e[2][2] <= f[2][2]

\* the entry heapq.heappop returns: the least one; the heap is a bag of entries
HeapMax(b) == CHOOSE e \in BagToSet(b) : \A f \in BagToSet(b) : EntryLeq(f, e)
HeapMin(b) == CHOOSE e \in BagToSet(b) : \A f \in BagToSet(b) : EntryLeq(e, f)

\* heapq.heappush(frontier, e), heapq.heappop(frontier)
HeapPush(b, e) == b (+) SetToBag({e})
HeapPopKeeps(b) == b
HeapPop(b) == b (-) SetToBag({HeapMin(b)})

\* the list of line 87, in its order
Moves == << <<-1, 0>>, <<1, 0>>, <<0, -1>>, <<0, 1>> >>

\* 0 <= nx < len(grid[0]) and 0 <= ny < len(grid)
InBounds(n, w, h) == 0 <= n[1] /\ n[1] < w /\ 0 <= n[2] /\ n[2] < h

\* dict.get(key): None for a missing key
Get(f, k) == IF k \in DOMAIN f THEN f[k] ELSE None

\* d[k] = v on a dict
Put(f, k, v) == [x \in DOMAIN f \cup {k} |-> IF x = k THEN v ELSE f[x]]

\* F applied to the value of e.  (TLC evaluates an operator's argument anew at
\* every use of it when it evaluates ENABLED; this form evaluates e once.)
Then(e, F(_)) == CHOOSE r \in {F(x) : x \in {e}} : TRUE

\* the generator object astar(grid, start, end, visualize) returns; its body has
\* not run yet.  out is the value of the last yield.
NewAstar(s, e, v) ==
    [pc |-> "init", start |-> s, end |-> e, visualize |-> v,
     frontier |-> EmptyBag, came_from |-> <<>>, cost_so_far |-> <<>>,
     visited |-> {}, current |-> None, path |-> <<>>, out |-> None]

NoAstar == [NewAstar(None, None, TRUE) EXCEPT !.pc = "none"]

\* lines 75-79
AstarLocals(st) ==
    [st EXCEPT !.frontier = HeapPush(EmptyBag, <<0, st.start>>),
               !.came_from = Put(<<>>, st.start, None),
               !.cost_so_far = Put(<<>>, st.start, 0),
               !.visited = {}]

\* lines 88-97 for one neighbour n of current
RelaxFromStart(st, n, g, w, h) ==
    LET new_cost == st.cost_so_far[st.current] + 1
    IN  IF /\ InBounds(n, w, h)
           /\ g[n] = Open
           /\ (n \notin DOMAIN st.cost_so_far \/ new_cost < st.cost_so_far[n])
        THEN [st EXCEPT !.cost_so_far = Put(@, n, new_cost),
                        !.frontier = HeapPush(@, <<new_cost + Heuristic(st.end, n), n>>),
                        !.came_from = Put(@, n, st.start)]
        ELSE st
RelaxNoHeuristic(st, n, g, w, h) ==
    LET new_cost == st.cost_so_far[st.current] + 1
    IN  IF /\ InBounds(n, w, h)
           /\ g[n] = Open
           /\ (n \notin DOMAIN st.cost_so_far \/ new_cost < st.cost_so_far[n])
        THEN [st EXCEPT !.cost_so_far = Put(@, n, new_cost),
                        !.frontier = HeapPush(@, <<new_cost, n>>),
                        !.came_from = Put(@, n, st.current)]
        ELSE st
Relax(st, n, g, w, h) ==
    LET new_cost == st.cost_so_far[st.current] + 1
    IN  IF /\ InBounds(n, w, h)
           /\ g[n] = Open
           /\ (n \notin DOMAIN st.cost_so_far \/ new_cost < st.cost_so_far[n])
        THEN [st EXCEPT !.cost_so_far = Put(@, n, new_cost),
                        !.frontier = HeapPush(@, <<new_cost + Heuristic(st.end, n), n>>),
                        !.came_from = Put(@, n, st.current)]
        ELSE st

\* the for loop of lines 87-97, from the i-th move on
RECURSIVE Expand(_, _, _, _, _)
Expand(st, i, g, w, h) ==
    IF i > Len(Moves) THEN st
    ELSE Then(Relax(st, Step(st.current, Moves[i]), g, w, h),
              LAMBDA next : Expand(next, i + 1, g, w, h))

\* lines 114-116: the final yield
Finish(st) ==
    LET p == Reverse(Append(st.path, st.start))
    IN  [st EXCEPT !.path = p, !.pc = "final",
                   !.out = <<st.visited, st.frontier, p>>]

\* lines 107-113: one iteration of the loop, up to its yield or its break
WalkBack(st) ==
    IF Get(st.came_from, st.current) = None
    THEN [st EXCEPT !.path = <<>>, !.current = None, !.pc = "break"]
    ELSE [st EXCEPT !.path = Append(@, st.current),
                    !.current = st.came_from[st.current], !.pc = "walk"]

\* line 113: the yield of a partial path
YieldPartial(st) ==
    [st EXCEPT !.pc = "recon", !.out = <<st.visited, st.frontier, st.path>>]

\* the while loop of lines 106-113, from its test, up to the next yield
RECURSIVE ReconLoop(_)
ReconLoop(st) ==
    IF st.current = st.start THEN Finish(st)
    ELSE Then(WalkBack(st), LAMBDA walked :
           IF walked.pc = "break" THEN Finish(walked)
           ELSE IF walked.visualize THEN YieldPartial(walked)
           ELSE ReconLoop(walked))

\* lines 104-105, then the loop
Reconstruct(st) ==
    Then([st EXCEPT !.path = <<>>, !.current = st.end], LAMBDA from_end : ReconLoop(from_end))

\* line 82: current = heapq.heappop(frontier)[1]
PopCurrent(st) ==
    [st EXCEPT !.current = HeapMin(st.frontier)[2], !.frontier = HeapPop(st.frontier)]

\* line 99: visited.add(current)
MarkVisitedSkipped(st) == st
MarkVisited(st) == [st EXCEPT !.visited = @ \cup {st.current}]

\* lines 100-101: the yield of a progress snapshot
YieldProgressWithPath(st) ==
    [st EXCEPT !.pc = "search", !.out = <<st.visited, st.frontier, <<st.current>>>>]
YieldProgress(st) ==
    [st EXCEPT !.pc = "search", !.out = <<st.visited, st.frontier, None>>]

\* the while loop of lines 81-101, from its test, up to the next yield
RECURSIVE SearchLoop(_, _, _, _)
SearchLoop(st, g, w, h) ==
    IF st.frontier = EmptyBag THEN Reconstruct(st)
    ELSE Then(PopCurrent(st), LAMBDA popped :
           IF popped.current = popped.end THEN Reconstruct(popped)
           ELSE Then(MarkVisited(Expand(popped, 1, g, w, h)), LAMBDA marked :
                  IF marked.visualize THEN YieldProgress(marked)
                  ELSE SearchLoop(marked, g, w, h)))

\* next(astar_iterator) on the frame st, with the grid as it is now: the frame
\* after it.  pc = "done" is the StopIteration that follows the final yield.
Advance(st, g, w, h) ==
    CASE st.pc = "init"   -> Then(AstarLocals(st), LAMBDA locals : SearchLoop(locals, g, w, h))
      [] st.pc = "search" -> SearchLoop(st, g, w, h)
      [] st.pc = "recon"  -> ReconLoop(st)
      [] st.pc = "final"  -> [st EXCEPT !.pc = "done"]
      [] OTHER            -> st

\* the path of the final snapshot, once it was yielded
FinalYielded == astar_iterator.pc \in {"final", "done"}
FinalPath == astar_iterator.out[3]

----------------------------------------------------------------------------
(* Oracles the properties are stated with: flood fill and breadth-first search *)

\* the 4-adjacent Open cells of c
OpenNeighbours(c, g) ==
    {n \in DOMAIN g : g[n] = Open /\ Abs(n[1] - c[1]) + Abs(n[2] - c[2]) = 1}

\* the cells reached from the set S through 4-adjacent Open cells
RECURSIVE Flood(_, _)
Flood(S, g) ==
    LET T == S \cup UNION {OpenNeighbours(c, g) : c \in S}
    IN  IF T = S THEN S ELSE Flood(T, g)

Reachable(s, e, g) == e \in Flood({s}, g)

\* the breadth-first distance from the layer S (at distance d) to e, -1 if none
RECURSIVE BfsFrom(_, _, _, _, _)
BfsFrom(S, seen, d, e, g) ==
    IF e \in S THEN d
    ELSE LET T == (UNION {OpenNeighbours(c, g) : c \in S}) \ seen
         IN  IF T = {} THEN -1 ELSE BfsFrom(T, seen \cup T, d + 1, e, g)

BfsDistance(s, e, g) == BfsFrom({s}, {s}, 0, e, g)

----------------------------------------------------------------------------
(* The generator on its own: every maze size, generate called up to MaxCalls *)
(* times by a caller that advances it one step at a time                      *)

IdleAstar ==
    /\ astar_iterator = NoAstar

IdleGame ==
    /\ gs_start = None /\ gs_end = None /\ gs_path = None
    /\ gs_visited = {} /\ gs_frontier = EmptyBag
    /\ generating = FALSE /\ solving = FALSE
    /\ main_pc = "none"

InitGen ==
    /\ width \in 3 .. MaxDim
    /\ height \in 3 .. MaxDim
    /\ grid = FreshGrid(width, height)
    /\ gen_iterator = NoGenerator
    /\ calls = 0
    /\ IdleAstar
    /\ IdleGame

\* maze.generate(animate=True): a new generator object; the old one is dropped
CallGenerate ==
    /\ calls < MaxCalls
    /\ calls' = calls + 1
    /\ gen_iterator' = NewGenerator
    /\ UNCHANGED <<width, height, grid, astar_iterator, gameVars>>

\* next(gen_iterator)
GenAdvance ==
    /\ \/ GenCarve
       \/ GenBacktrack
       \/ GenStop
    /\ UNCHANGED <<width, height, calls, astar_iterator, gameVars>>

NextGen == CallGenerate \/ GenAdvance

SpecGen == InitGen /\ [][NextGen]_vars

\* a caller that keeps advancing the generator it holds
LiveSpecGen == SpecGen /\ WF_vars(GenAdvance)

----------------------------------------------------------------------------
(* astar on its own: every grid, every start and end, both visualize modes *)

\* the sizes of the grids of at most n cells
Sizes(n) == {wh \in (1 .. n) \X (1 .. n) : wh[1] * wh[2] <= n}

InitAstarOn(n, pad, modes) ==
    /\ \E wh \in Sizes(n) : width = wh[1] /\ height = wh[2]
    /\ grid \in [Cells(width, height) -> {Open, Wall}]
    /\ gen_iterator = NoGenerator
    /\ calls = 0
    /\ \E s, e \in (0 - pad .. width - 1 + pad) \X (0 - pad .. height - 1 + pad) :
         \E v \in modes :
           /\ pad = 0 => s \in OpenCells(grid) /\ e \in OpenCells(grid)
           /\ astar_iterator = NewAstar(s, e, v)
    /\ IdleGame

\* start and end are Open cells of the grid
InitAstar == InitAstarOn(MaxCells, 0, BOOLEAN)

\* start and end are any cells, also walls and cells one step outside the grid
InitAstarAny == InitAstarOn(MaxCellsAny, 1, BOOLEAN)

\* next(astar_iterator)
AstarAdvanceMarksGrid ==
    /\ astar_iterator.pc \notin {"none", "done"}
    /\ astar_iterator' = Advance(astar_iterator, grid, width, height)
    /\ grid' = [c \in DOMAIN grid |->
                   IF c \in astar_iterator'.visited THEN Wall ELSE grid[c]]
    /\ UNCHANGED <<width, height, gen_iterator, calls, gameVars>>
AstarAdvance ==
    /\ astar_iterator.pc \notin {"none", "done"}
    /\ astar_iterator' = Advance(astar_iterator, grid, width, height)
    /\ UNCHANGED <<mazeVars, gameVars>>

SpecAstar == InitAstar /\ [][AstarAdvance]_vars

SpecAstarAny == InitAstarAny /\ [][AstarAdvance]_vars

\* A caller that makes a grid, calls astar on it with any start and end, and
\* keeps advancing the iterator it holds.  With visualize on, as the driver calls
\* it, every iteration of either loop of astar is one advance.
InitCaller ==
    /\ width = 1
    /\ height = 1
    /\ grid = FreshGrid(1, 1)
    /\ gen_iterator = NoGenerator
    /\ calls = 0
    /\ IdleAstar
    /\ IdleGame

\* PathFinder.astar(grid, start, end, visualize=True) on a grid of the caller's
CallAstar ==
    /\ astar_iterator.pc = "none"
    /\ \E wh \in Sizes(MaxCellsAny) :
         /\ width' = wh[1]
         /\ height' = wh[2]
         /\ grid' \in [Cells(wh[1], wh[2]) -> {Open, Wall}]
         /\ \E s, e \in (-1 .. wh[1]) \X (-1 .. wh[2]) :
              astar_iterator' = NewAstar(s, e, TRUE)
    /\ UNCHANGED <<gen_iterator, calls, gameVars>>

NextCaller == CallAstar \/ AstarAdvance

LiveSpecAstar == InitCaller /\ [][NextCaller]_vars /\ WF_vars(AstarAdvance)

----------------------------------------------------------------------------
(* Either computation on its own, advanced one step at a time, as update     *)
(* advances it: a generator on a fresh maze, or astar with visualize on      *)

InitSteps ==
    \/ InitGen
    \/ InitAstarOn(MaxCells, 0, {TRUE})

NextSteps ==
    \/ astar_iterator.pc = "none" /\ NextGen
    \/ AstarAdvance

SpecSteps == InitSteps /\ [][NextSteps]_vars

----------------------------------------------------------------------------
(* GameState and main(): the driver.  Events and update ticks interleave     *)
(* freely: handle_events handles any number of queued events between two     *)
(* calls of update.                                                          *)

WINDOW_WIDTH == GRID_WIDTH * CELL_SIZE
WINDOW_HEIGHT == GRID_HEIGHT * CELL_SIZE

\* the pixels a click is tried at: the first and the last pixel of every cell
PixelsTo(limit) == {p \in 0 .. limit - 1 : p % CELL_SIZE \in {0, CELL_SIZE - 1}}

\* event.button: 1 is the left button, 3 the right one
Buttons == {1, 2, 3}

Keys == {"K_SPACE", "K_RETURN", "K_ESCAPE"}

\* GameState.__init__ (lines 121-135), before main() goes on
InitGame ==
    /\ width = GRID_WIDTH
    /\ height = GRID_HEIGHT
    /\ grid = FreshGrid(width, height)
    /\ gen_iterator = NoGenerator
    /\ calls = 0
    /\ astar_iterator = NoAstar
    /\ gs_start = None /\ gs_end = None /\ gs_path = None
    /\ gs_visited = {} /\ gs_frontier = EmptyBag
    /\ generating = FALSE /\ solving = FALSE
    /\ main_pc = "construct"

\* regenerate_maze (lines 168-174)
regenerate_maze ==
    /\ generating' = TRUE
    /\ gs_start' = None
    /\ gs_end' = None
    /\ gs_path' = None
    /\ gen_iterator' = NewGenerator
    /\ UNCHANGED <<width, height, grid, calls, astar_iterator, gs_visited,
                   gs_frontier, solving>>

\* start_solving (lines 176-181)
start_solving ==
    /\ solving' = TRUE
    /\ astar_iterator' = NewAstar(gs_start, gs_end, TRUE)
    /\ UNCHANGED <<mazeVars, gs_start, gs_end, gs_path, gs_visited, gs_frontier,
                   generating>>

\* main(), line 234: game.regenerate_maze() before the loop
MainRegenerate ==
    /\ main_pc = "construct"
    /\ main_pc' = "loop"
    /\ regenerate_maze

\* handle_mouse_click (lines 148-159) for a click at pixel (px, py)
handle_mouse_click_on_any_cell ==
    /\ main_pc = "loop"
    /\ \E px \in PixelsTo(WINDOW_WIDTH), py \in PixelsTo(WINDOW_HEIGHT), button \in Buttons :
         LET cell == <<px \div CELL_SIZE, py \div CELL_SIZE>>
         IN  /\ gs_start' = IF button = 1 THEN cell ELSE gs_start
             /\ gs_end' = IF button = 3 THEN cell ELSE gs_end
    /\ UNCHANGED <<mazeVars, astar_iterator, gs_path, gs_visited, gs_frontier,
                   generating, solving, main_pc>>
handle_mouse_click ==
    /\ main_pc = "loop"
    /\ \E px \in PixelsTo(WINDOW_WIDTH), py \in PixelsTo(WINDOW_HEIGHT), button \in Buttons :
         LET cell == <<px \div CELL_SIZE, py \div CELL_SIZE>>
         IN  /\ gs_start' = IF button = 1 /\ grid[cell] = Open THEN cell ELSE gs_start
             /\ gs_end' = IF button = 3 /\ grid[cell] = Open THEN cell ELSE gs_end
    /\ UNCHANGED <<mazeVars, astar_iterator, gs_path, gs_visited, gs_frontier,
                   generating, solving, main_pc>>

\* handle_key_press (lines 161-166)
handle_key_press ==
    /\ main_pc = "loop"
    /\ UNCHANGED main_pc
    /\ \E key \in Keys :
         IF key = "K_SPACE" THEN regenerate_maze
         ELSE IF key = "K_RETURN" /\ gs_start # None /\ gs_end # None THEN start_solving
         ELSE UNCHANGED <<mazeVars, astar_iterator, gs_start, gs_end, gs_path,
                          gs_visited, gs_frontier, generating, solving>>

\* update, lines 185-190: one step of the generation, if one is running
UpdateGenerating ==
    IF generating
    THEN \/ GenCarve /\ generating' = TRUE
         \/ GenBacktrack /\ generating' = TRUE
         \/ GenStop /\ generating' = FALSE
    ELSE UNCHANGED <<grid, gen_iterator, generating>>

\* update, lines 192-196: one step of the search, if one is running; it reads
\* the grid as the generation step of the same update left it
UpdateSolving ==
    IF solving
    THEN LET st == Advance(astar_iterator, grid', width, height)
         IN  /\ astar_iterator' = st
             /\ IF st.pc = "done"
                THEN /\ solving' = FALSE
                     /\ UNCHANGED <<gs_visited, gs_frontier, gs_path>>
                ELSE /\ solving' = TRUE
                     /\ gs_visited' = st.out[1]
                     /\ gs_frontier' = st.out[2]
                     /\ gs_path' = st.out[3]
    ELSE UNCHANGED <<astar_iterator, solving, gs_visited, gs_frontier, gs_path>>

\* update (lines 183-196)
update ==
    /\ main_pc = "loop"
    /\ UpdateGenerating
    /\ UpdateSolving
    /\ UNCHANGED <<width, height, calls, gs_start, gs_end, main_pc>>

NextGame == MainRegenerate \/ handle_mouse_click \/ handle_key_press \/ update

SpecGame == InitGame /\ [][NextGame]_vars

----------------------------------------------------------------------------
(* Properties *)

Adjacent(a, b) == Abs(a[1] - b[1]) + Abs(a[2] - b[2]) = 1

\* the arguments astar was called with
a_start == astar_iterator.start
a_end == astar_iterator.end

\* C1: when end is reachable from start through 4-adjacent Open cells, the path
\* of the final snapshot goes from start to end over 4-adjacent Open cells and
\* has as many moves as the breadth-first shortest distance from start to end.
AstarPathIsShortest ==
    (FinalYielded /\ Reachable(a_start, a_end, grid)) =>
        LET p == FinalPath
        IN  /\ Len(p) >= 1
            /\ p[1] = a_start
            /\ p[Len(p)] = a_end
            /\ \A i \in 1 .. Len(p) : p[i] \in OpenCells(grid)
            /\ \A i \in 1 .. Len(p) - 1 : Adjacent(p[i], p[i + 1])
            /\ Len(p) - 1 = BfsDistance(a_start, a_end, grid)

\* a finished search whose shortest path has to go around walls
AstarDetourFound ==
    /\ FinalYielded
    /\ Reachable(a_start, a_end, grid)
    /\ BfsDistance(a_start, a_end, grid) > Heuristic(a_start, a_end)
    /\ Len(FinalPath) >= 5

\* C2: when end is not reachable from start (and end # start), the path of the
\* final snapshot is the empty sequence.
UnreachableGivesEmptyPath ==
    (FinalYielded /\ a_end # a_start /\ ~Reachable(a_start, a_end, grid)) =>
        FinalPath = <<>>

\* C3: start = end gives the single-cell path [start], and a single-cell path is
\* given for no other input: an unreachable end gives something else.
SingleCellPathOnlyForStartIsEnd ==
    FinalYielded =>
        /\ a_start = a_end => FinalPath = <<a_start>>
        /\ Len(FinalPath) = 1 => a_start = a_end

\* every border cell
Border(w, h) == {c \in Cells(w, h) : c[1] \in {0, w - 1} \/ c[2] \in {0, h - 1}}

\* the room cells: odd x, odd y
Rooms(g) == {c \in DOMAIN g : c[1] % 2 = 1 /\ c[2] % 2 = 1}

\* C4: after generate ran to completion on a freshly constructed grid, every
\* Open cell is reachable from (1,1), and the Open rooms are one more than the
\* Open connector cells: the Open cells form a tree.
GeneratedMazeIsTree ==
    (gen_iterator.pc = "done" /\ calls = 1) =>
        /\ Flood({GenStart}, grid) = OpenCells(grid)
        /\ Cardinality(OpenCells(grid) \cap Rooms(grid))
             - Cardinality(OpenCells(grid) \ Rooms(grid)) = 1

\* a first run that ended with at least six rooms carved
GeneratedMazeDone ==
    /\ gen_iterator.pc = "done"
    /\ calls = 1
    /\ Cardinality(OpenCells(grid) \cap Rooms(grid)) >= 6

\* C5: during and after generate, for every width and height (odd or even),
\* every border cell is Wall, and no cell pushed on the stack (a carved
\* neighbour) is a border cell.
BorderStaysWall ==
    /\ \A c \in Border(width, height) : grid[c] = Wall
    /\ \A i \in 1 .. Len(gen_iterator.stack) :
         gen_iterator.stack[i] \notin Border(width, height)

\* an even width, and a carve into the last room column next to the border
CarvedNextToBorder ==
    /\ width % 2 = 0
    /\ gen_iterator.event # None
    /\ gen_iterator.event[1] = width - 3

\* the cell half way between a and b
Between(a, b) == <<(a[1] + b[1]) \div 2, (a[2] + b[2]) \div 2>>

\* C6: every call of generate begins from a fully Walled grid in which only
\* (1,1) is then opened: after the first advance of any call, the only Open
\* cells are (1,1), the neighbour carved by that advance and their connector.
EveryCallStartsFromWalls ==
    [][(gen_iterator.pc = "init" /\ gen_iterator'.pc = "loop") =>
         OpenCells(grid') \subseteq
             {GenStart} \cup Range(gen_iterator'.stack)
                 \cup {Between(GenStart, c) : c \in Range(gen_iterator'.stack)}]_vars

\* C7: generating and solving are never both true.
NeverSolvingWhileGenerating == ~(generating /\ solving)

\* the precondition of astar: start and end are Open cells of the grid
PreconditionHolds == a_start \in OpenCells(grid) /\ a_end \in OpenCells(grid)

\* C8: astar called with a start or end that is out of bounds or a Wall fails
\* at call time: it never yields a snapshot, it ends in an error.
InvalidArgumentsRejected ==
    (astar_iterator.pc # "none" /\ ~PreconditionHolds) =>
        /\ astar_iterator.pc \in {"init", "error"}
        /\ astar_iterator.out = None

\* C9: a generate that is advanced again and again ends, whatever the shuffles.
GenerateTerminates ==
    (gen_iterator.pc \in {"init", "loop"}) ~> (gen_iterator.pc = "done")

\* a run that ended after carving every room of the largest maze
GenerateEndedFull ==
    /\ gen_iterator.pc = "done"
    /\ gen_iterator.stack = <<>>
    /\ width = MaxDim /\ height = MaxDim
    /\ Rooms(grid) \ Border(width, height) \subseteq OpenCells(grid)

\* C10: an astar that is advanced again and again yields its final snapshot and
\* ends, for every grid, start and end.
AstarTerminates ==
    (astar_iterator.pc \in {"init", "search", "recon", "final"})
        ~> (astar_iterator.pc = "done")

\* a search that ended after expanding cells and walking back a path
AstarEnded ==
    /\ astar_iterator.pc = "done"
    /\ Cardinality(astar_iterator.visited) >= 3
    /\ Len(FinalPath) >= 3

\* C11: when end is not reachable from an Open start, the visited set of the
\* final snapshot is exactly the set of Open cells reachable from start.
UnreachableVisitsAllReachable ==
    (FinalYielded /\ ~Reachable(a_start, a_end, grid)) =>
        astar_iterator.out[1] = Flood({a_start}, grid)

\* a failed search that expanded four cells or more and left Open cells aside
UnreachableSearchEnded ==
    /\ FinalYielded
    /\ ~Reachable(a_start, a_end, grid)
    /\ Cardinality(astar_iterator.out[1]) >= 4
    /\ Cardinality(OpenCells(grid) \ Flood({a_start}, grid)) >= 2

\* C12: no advance of astar changes the grid, the advances of the path
\* reconstruction included.
AstarLeavesGrid ==
    [][astar_iterator' # astar_iterator => grid' = grid]_vars

\* a search that has yielded partial paths: reconstruction advances were made
AstarReconstructing ==
    /\ astar_iterator.pc = "recon"
    /\ Len(astar_iterator.path) >= 2
    /\ Cardinality(astar_iterator.visited) >= 3

\* an advance of generate that yields an event
GenYields == gen_iterator.pc \in {"init", "loop"} /\ gen_iterator'.pc = "loop"

\* the advance made exactly one carve-or-backtrack step from grid g and stack s
OneGenStep(g, s) ==
    LET ev == gen_iterator'.event
    IN  \/ /\ ev # None
           /\ s # <<>>
           /\ gen_iterator'.stack = Append(s, ev)
           /\ {c \in DOMAIN g : grid'[c] # g[c]} = {ev, Between(s[Len(s)], ev)}
           /\ g[ev] = Wall /\ g[Between(s[Len(s)], ev)] = Wall
           /\ ev \in Rooms(g) /\ Between(s[Len(s)], ev) \notin Rooms(g)
        \/ /\ ev = None
           /\ s # <<>>
           /\ gen_iterator'.stack = SubSeq(s, 1, Len(s) - 1)
           /\ grid' = g

\* an advance of astar (visualize on) that yields a progress snapshot
AstarYieldsProgress ==
    /\ astar_iterator.visualize
    /\ astar_iterator.pc \in {"init", "search"}
    /\ astar_iterator'.pc = "search"

\* the frontier the search loop finds: the first advance seeds it (line 76)
FrontierAtLoop ==
    IF astar_iterator.pc = "init" THEN SetToBag({<<0, a_start>>})
    ELSE astar_iterator.frontier

\* the advance took exactly one entry off the frontier, that of current
PopsOneEntry ==
    \E e \in BagToSet(FrontierAtLoop) :
        /\ e[2] = astar_iterator'.current
        /\ CopiesIn(e, astar_iterator'.frontier) = CopiesIn(e, FrontierAtLoop) - 1
        /\ \A f \in BagToSet(FrontierAtLoop) \ {e} :
             CopiesIn(f, astar_iterator'.frontier) >= CopiesIn(f, FrontierAtLoop)

\* C13 as stated: every advance of generate that yields an event is exactly one
\* carve (one room and one connector change from Wall to Open, one push, the
\* event is the new top) or one backtrack (one pop, grid unchanged) from the
\* grid and stack as they were before the advance; every advance of astar that
\* yields a progress snapshot pops exactly one frontier entry.
EachAdvanceIsOneStep ==
    [][/\ GenYields => OneGenStep(grid, gen_iterator.stack)
       /\ AstarYieldsProgress => PopsOneEntry]_vars

\* C13, amended: the same, where the first advance of generate first opens
\* (1,1) and pushes it (lines 39-41) and then makes its one step from there.
EachAdvanceIsOneStepAfterSetup ==
    [][/\ GenYields => OneGenStep(GridAtLoop, StackAtLoop)
       /\ AstarYieldsProgress => PopsOneEntry]_vars

\* a carve made after a backtrack: fewer cells on the stack than Open rooms
CarvedAfterBacktrack ==
    /\ gen_iterator.pc = "loop"
    /\ gen_iterator.event # None
    /\ calls = 1
    /\ Len(gen_iterator.stack) < Cardinality(OpenCells(grid) \cap Rooms(grid))

\* the room cells strictly inside the border
InteriorRooms == Rooms(grid) \ Border(width, height)

\* C14: during a generation from a fresh grid, no cell is emitted as Carved
\* twice, only room cells inside the border other than (1,1) are emitted, no
\* cell is pushed twice, and when the run has ended every such room cell was
\* emitted.
EveryRoomCarvedOnce ==
    calls = 1 =>
        /\ \A c \in BagToSet(gen_iterator.emitted) :
             /\ c \in InteriorRooms \ {GenStart}
             /\ CopiesIn(c, gen_iterator.emitted) = 1
        /\ \A c \in BagToSet(gen_iterator.pushed) :
             CopiesIn(c, gen_iterator.pushed) = 1
        /\ gen_iterator.pc = "done" =>
             BagToSet(gen_iterator.emitted) = InteriorRooms \ {GenStart}

\* a first run that ended on a maze of even width with five Carved events or more
GenerateEndedEvenWidth ==
    /\ gen_iterator.pc = "done"
    /\ calls = 1
    /\ width % 2 = 0
    /\ BagCardinality(gen_iterator.emitted) >= 5

\* what astar yields with visualize off for the same grid, start and end
SingleSnapshot == Advance(NewAstar(a_start, a_end, FALSE), grid, width, height).out

\* the order of the snapshots of one advance after another, visualize on:
\* progress snapshots (no path), then partial paths (walked back from end), then
\* one final snapshot, after which the iterator ends; the final snapshot has
\* the visited set and the path of the single snapshot of visualize off
SnapshotOrder ==
    LET pc == astar_iterator.pc
        now == astar_iterator'
    IN  /\ pc \in {"init", "search"} => now.pc \in {"search", "recon", "final"}
        /\ pc = "recon" => now.pc \in {"recon", "final"}
        /\ pc = "final" => now.pc = "done" /\ now.out = astar_iterator.out
        /\ now.pc = "search" => now.out[3] = None
        /\ now.pc = "recon" => now.out[3] # None /\ now.out[3][1] = a_end
        /\ now.pc = "final" =>
             /\ now.out[1] = SingleSnapshot[1]
             /\ now.out[3] = SingleSnapshot[3]

\* C15 as stated: the snapshots come in that order, and there is one progress
\* snapshot per expanded cell: each one is for a cell that was not expanded yet.
SnapshotsOnePerCell ==
    [][astar_iterator.visualize =>
         /\ SnapshotOrder
         /\ AstarYieldsProgress =>
              astar_iterator'.current \notin astar_iterator.visited]_vars

\* C15, amended: the snapshots come in that order, and there is one progress
\* snapshot per pop-and-expand: each one adds the popped cell to visited, which
\* may hold it already.
SnapshotsOnePerExpansion ==
    [][astar_iterator.visualize =>
         /\ SnapshotOrder
         /\ AstarYieldsProgress =>
              astar_iterator'.visited =
                  astar_iterator.visited \cup {astar_iterator'.current}]_vars

\* the final snapshot of a visualised search that expanded cells off its path
FinalSnapshotYielded ==
    /\ astar_iterator.pc = "final"
    /\ astar_iterator.visualize
    /\ Len(FinalPath) >= 4
    /\ Cardinality(astar_iterator.out[1]) > Len(FinalPath)

\* C16: for every cell that was popped and expanded, cost_so_far is the
\* breadth-first shortest distance from start, from its first pop on; so is
\* that of end once it was popped.
FirstPopIsOptimal ==
    /\ \A c \in astar_iterator.visited :
         astar_iterator.cost_so_far[c] = BfsDistance(a_start, c, grid)
    /\ (FinalYielded /\ Reachable(a_start, a_end, grid)) =>
         astar_iterator.cost_so_far[a_end] = BfsDistance(a_start, a_end, grid)

\* a search on a grid with a cycle that has expanded a cell four moves or more
\* from start, further than the straight line to it
ExpandedFarCell ==
    /\ astar_iterator.pc = "search"
    /\ Cardinality(OpenCells(grid)) > Cardinality(astar_iterator.visited) + 2
    /\ \E c \in astar_iterator.visited :
         /\ astar_iterator.cost_so_far[c] >= 4
         /\ astar_iterator.cost_so_far[c] > Heuristic(a_start, c)
    /\ \E c \in OpenCells(grid) :
         /\ Step(c, <<1, 0>>) \in OpenCells(grid)
         /\ Step(c, <<0, 1>>) \in OpenCells(grid)
         /\ Step(c, <<1, 1>>) \in OpenCells(grid)

\* the cells of the frontier entries of a snapshot
FrontierCells(snapshot) == {e[2] : e \in BagToSet(snapshot[2])}

\* the priority an entry for cell c gets at the cost c has now
FreshPriority(c) == astar_iterator.cost_so_far[c] + Heuristic(a_end, c)

\* C17 as stated: in every snapshot no cell is both in visited and in the
\* frontier, and no cell is popped and expanded a second time.
FrontierHoldsNoExpandedCell ==
    [][/\ astar_iterator'.out # None =>
            astar_iterator'.out[1] \cap FrontierCells(astar_iterator'.out) = {}
       /\ AstarYieldsProgress =>
            astar_iterator'.current \notin astar_iterator.visited]_vars

\* in the last snapshot: every frontier entry is for a discovered Open cell, at
\* a priority not below the fresh one; every discovered cell that was not
\* expanded has a fresh entry (end has none once it was popped); an expanded
\* cell has only stale entries, of a priority above the fresh one
OnlyStaleEntriesOfExpanded ==
    astar_iterator.out # None =>
        /\ \A e \in BagToSet(astar_iterator.out[2]) :
             /\ e[2] \in DOMAIN astar_iterator.cost_so_far
             /\ e[2] \in OpenCells(grid)
             /\ e[1] >= FreshPriority(e[2])
             /\ e[2] \in astar_iterator.out[1] => e[1] > FreshPriority(e[2])
        /\ \A c \in DOMAIN astar_iterator.cost_so_far \ astar_iterator.out[1] :
             \/ c = a_end /\ astar_iterator.pc # "search"
             \/ <<FreshPriority(c), c>> \in BagToSet(astar_iterator.out[2])

\* C17, amended: the frontier of every snapshot holds a fresh entry for every
\* discovered cell not expanded yet, and for an expanded cell only stale
\* entries; popping a stale entry expands the cell again and changes nothing
\* but the frontier, which loses that entry.
FrontierHoldsStaleEntriesOnly ==
    [][/\ OnlyStaleEntriesOfExpanded'
       /\ (AstarYieldsProgress /\ astar_iterator'.current \in astar_iterator.visited) =>
            /\ astar_iterator'.cost_so_far = astar_iterator.cost_so_far
            /\ astar_iterator'.came_from = astar_iterator.came_from
            /\ astar_iterator'.visited = astar_iterator.visited
            /\ BagCardinality(astar_iterator'.frontier)
                 = BagCardinality(astar_iterator.frontier) - 1]_vars

\* a snapshot with an expanded cell in its frontier
SnapshotWithStaleEntry ==
    /\ astar_iterator.pc = "search"
    /\ astar_iterator.out[1] \cap FrontierCells(astar_iterator.out) # {}

\* C18: from regenerate_maze until cells are selected and start_solving is
\* invoked again, that is while start or end is unset, path stays None and no
\* step writes visited or frontier: a solve started before writes nothing.
RegenerateResetsState ==
    [][(gs_start = None \/ gs_end = None) =>
         /\ gs_path' = None
         /\ gs_visited' = gs_visited
         /\ gs_frontier' = gs_frontier]_vars

\* following came_from from c reaches start within n moves
RECURSIVE LeadsToStart(_, _)
LeadsToStart(c, n) ==
    \/ c = a_start
    \/ /\ n > 0
       /\ c \in DOMAIN astar_iterator.came_from
       /\ LeadsToStart(astar_iterator.came_from[c], n - 1)

\* C19: at every step of astar, came_from[start] is None and cost_so_far[start]
\* is 0; for every other discovered cell c, came_from[c] is a discovered Open
\* 4-neighbour of c of a smaller cost_so_far; following came_from from c
\* reaches start in at most cost_so_far[c] moves, so without a repeated cell.
CameFromIsTree ==
    astar_iterator.pc \notin {"none", "init"} =>
        LET came_from == astar_iterator.came_from
            cost_so_far == astar_iterator.cost_so_far
        IN  /\ DOMAIN came_from = DOMAIN cost_so_far
            /\ came_from[a_start] = None
            /\ cost_so_far[a_start] = 0
            /\ \A c \in DOMAIN came_from \ {a_start} :
                 /\ came_from[c] \in DOMAIN cost_so_far
                 /\ came_from[c] \in OpenCells(grid)
                 /\ Adjacent(c, came_from[c])
                 /\ cost_so_far[came_from[c]] < cost_so_far[c]
                 /\ LeadsToStart(c, cost_so_far[c])

\* a search in which a cell was discovered twice: its stale entry is still in
\* the heap, so its came_from was rewritten by the improvement
CameFromRewritten ==
    /\ astar_iterator.pc = "search"
    /\ \E e \in BagToSet(astar_iterator.frontier) :
         /\ e[2] \in DOMAIN astar_iterator.cost_so_far
         /\ e[1] > FreshPriority(e[2])
    /\ Cardinality(DOMAIN astar_iterator.came_from) >= 6

\* start and end of the driver, when set, and those of the astar it started
\* are Open cells of the grid
SelectedCellsAreOpen ==
    /\ gs_start # None => gs_start \in OpenCells(grid)
    /\ gs_end # None => gs_end \in OpenCells(grid)
    /\ astar_iterator.pc # "none" => PreconditionHolds

\* C20: after every click, key press and update tick, start and end, when set,
\* are in-bounds Open cells, and so are those every astar was started with; no
\* step turns an Open cell into a Wall.
StartAndEndStayOpen ==
    [][/\ SelectedCellsAreOpen'
       /\ \A c \in OpenCells(grid) : grid'[c] = Open]_vars

\* a search started on cells selected during a repeated generation: the
\* generator is new and the cells of the maze before it are Open
SolvingDuringRegeneration ==
    /\ gen_iterator.pc = "init"
    /\ generating
    /\ astar_iterator.pc = "search"
    /\ gs_start # None /\ gs_end # None /\ gs_start # gs_end
    /\ a_start = gs_start /\ a_end = gs_end

====
